---------------------------- MODULE Spec2Model ----------------------------
(***************************************************************************)
(* Model of datasets.py: the Dataset base class with its minibatch         *)
(* generator, and the KaggleDR dataset (label table, image loading,        *)
(* preprocessing and batch loading).                                       *)
(*                                                                         *)
(* Python sequences are modelled as TLA+ sequences; a Python position i    *)
(* (counted from 0) is the TLA+ position i+1.  The interpreter is the      *)
(* Python 2 the module is written for (__metaclass__), so "/" on integers  *)
(* is floor division.                                                      *)
(***************************************************************************)
EXTENDS Integers, Sequences, FiniteSets, TLC

VARIABLES
    csv,              \* the label file read at construction: rows [image, level]
    image_filenames,  \* self.image_filenames
    y,                \* self.y
    n_samples,        \* self._n_samples
    indices,          \* the caller's index sequence (shared with the generator)
    gen,              \* the generator object made by iterate_minibatches
    it_orig,          \* the caller's sequence when iterate_minibatches was called
    it_yielded,       \* the batches this generator has yielded so far
    it_loads,         \* the windows this generator has passed to load_batch
    it_shuffles,      \* how often this generator has shuffled
    it_nexts,         \* next() requests made on this generator
    ret,              \* what the last operation handed to the caller
    prep_in,          \* the raw image given to prep_image (preprocessing runs)
    prep_out          \* what prep_image made of it

vars == <<csv, image_filenames, y, n_samples, indices, gen, it_orig, it_yielded,
          it_loads, it_shuffles, it_nexts, ret, prep_in, prep_out>>

table == <<csv, image_filenames, y, n_samples>>
iter == <<gen, it_orig, it_yielded, it_loads, it_shuffles, it_nexts>>
prep == <<prep_in, prep_out>>

-----------------------------------------------------------------------------
(* Bounds of the model *)

MaxRows == 2      \* rows of the label file
MaxLen == 2       \* length of the caller's index sequence
MaxBatch == 2     \* largest batch size passed
MaxNext == 2      \* next() requests followed on one generator
MaxDim == 300     \* largest height/width of a raw image in preprocessing runs

(* Program constants *)

ResizeTo == 256   \* prep_image: the shorter side after the resize
CropHalf == 112   \* prep_image: half the side of the central crop

-----------------------------------------------------------------------------
(* Helpers on sequences *)

Min(a, b) == IF a < b THEN a ELSE b
Max(a, b) == IF a < b THEN b ELSE a

Reverse(s) == [i \in 1..Len(s) |-> s[Len(s) + 1 - i]]

Count(s, v) == Cardinality({i \in 1..Len(s) : s[i] = v})

SeqsUpTo(S, n) == UNION {[1..k -> S] : k \in 0..n}

\* the orders np.random.shuffle can leave a sequence in
ShuffleOrders(s) ==
    {t \in [1..Len(s) -> {s[i] : i \in 1..Len(s)}] :
        \A v \in {s[i] : i \in 1..Len(s)} : Count(t, v) = Count(s, v)}

\* Python's s[start:stop] for a sequence of length n: the positions kept
SliceBounds(start, stop, n) ==
    LET lo == IF start < 0 THEN Max(start + n, 0) ELSE Min(start, n)
        hi == IF stop < 0 THEN Max(stop + n, 0) ELSE Min(stop, n)
    IN  <<lo, Max(lo, hi)>>

Slice(s, start, stop) ==
    LET b == SliceBounds(start, stop, Len(s)) IN SubSeq(s, b[1] + 1, b[2])

-----------------------------------------------------------------------------
(* The world outside the program: image files and label files *)

NaN == "NaN"      \* pandas' marker for a label it did not find

\* a decoded image: rows, columns, channel order, and whose pixels they are
RawImage(h, w, id) == [ok |-> TRUE, h |-> h, w |-> w, channels |-> <<"R", "G", "B">>, id |-> id]
Unreadable == [ok |-> FALSE, h |-> 0, w |-> 0, channels |-> <<>>, id |-> "none"]

FileNames == {"img1", "img2", "bad"}

\* path_data: img1.jpeg is 300 x 400, img2.jpeg is 100 x 80 (upscaled by
\* prep_image), bad.jpeg does not decode
Disk(fn) ==
    CASE fn = "img1" -> RawImage(300, 400, "img1")
      [] fn = "img2" -> RawImage(100, 80, "img2")
      [] OTHER -> Unreadable

\* the rows a label file is made of
RowPool == {[image |-> "img1", level |-> 0],
            [image |-> "img2", level |-> 2],
            [image |-> "bad", level |-> 1]}

LabelFiles == SeqsUpTo(RowPool, MaxRows)

-----------------------------------------------------------------------------
(* Library behaviour the program relies on *)

Raise(op, err, reads) ==
    [op |-> op, kind |-> "raise", err |-> err, X |-> <<>>, y |-> <<>>,
     reads |-> reads, val |-> 0]

Return(op, X, labels, reads, val) ==
    [op |-> op, kind |-> "ok", err |-> "none", X |-> X, y |-> labels,
     reads |-> reads, val |-> val]

NoReturn == [op |-> "none", kind |-> "none", err |-> "none", X |-> <<>>, y |-> <<>>,
             reads |-> <<>>, val |-> 0]

\* (variant) the filename lookup done by position, as numpy would
SeriesGetItem_Positional(series, keys, reindexes) ==
    LET n == Len(series)
    IN  IF \A i \in 1..Len(keys) : keys[i] >= -n /\ keys[i] < n
        THEN [err |-> "none",
              vals |-> [i \in 1..Len(keys) |->
                          series[(IF keys[i] < 0 THEN keys[i] + n ELSE keys[i]) + 1]]]
        ELSE [err |-> "IndexError", vals |-> <<>>]

\* pandas: series[keys] for a Series on the default integer index 0..n-1 and
\* a list/array of integers is a lookup by LABEL.  A label that is not in the
\* index is a KeyError; the pandas releases of the program's time reindex
\* instead and give NaN for it (reindexes = TRUE).
SeriesGetItem(series, keys, reindexes) ==
    LET found(k) == k \in 0..(Len(series) - 1)
    IN  IF \A i \in 1..Len(keys) : found(keys[i])
        THEN [err |-> "none", vals |-> [i \in 1..Len(keys) |-> series[keys[i] + 1]]]
        ELSE IF reindexes
        THEN [err |-> "none",
              vals |-> [i \in 1..Len(keys) |->
                          IF found(keys[i]) THEN series[keys[i] + 1] ELSE NaN]]
        ELSE [err |-> "KeyError", vals |-> <<>>]

\* (variant) the label lookup one position off
NumpyTake_OffByOne(arr, keys) ==
    LET n == Len(arr)
    IN  IF \A i \in 1..Len(keys) : keys[i] >= -n /\ keys[i] < n
        THEN [err |-> "none",
              vals |-> [i \in 1..Len(keys) |-> arr[((keys[i] + 1) % n) + 1]]]
        ELSE [err |-> "IndexError", vals |-> <<>>]

\* numpy: arr[keys] for an integer list/array is a lookup by POSITION; a
\* negative position counts from the end, one outside [-n, n) is an IndexError.
NumpyTake(arr, keys) ==
    LET n == Len(arr)
    IN  IF \A i \in 1..Len(keys) : keys[i] >= -n /\ keys[i] < n
        THEN [err |-> "none",
              vals |-> [i \in 1..Len(keys) |->
                          arr[(IF keys[i] < 0 THEN keys[i] + n ELSE keys[i]) + 1]]]
        ELSE [err |-> "IndexError", vals |-> <<>>]

-----------------------------------------------------------------------------
(* KaggleDR *)

\* (variant) a constructor that counts the distinct labels
KaggleDR_init_Unique(labels) ==
    [image_filenames |-> [i \in 1..Len(labels) |-> labels[i].image],
     y |-> [i \in 1..Len(labels) |-> labels[i].level],
     n_samples |-> Cardinality({labels[i].level : i \in 1..Len(labels)})]

\* KaggleDR.__init__: the table read from the label file
KaggleDR_init(labels) ==
    [image_filenames |-> [i \in 1..Len(labels) |-> labels[i].image],
     y |-> [i \in 1..Len(labels) |-> labels[i].level],
     n_samples |-> Len([i \in 1..Len(labels) |-> labels[i].level])]

\* KaggleDR.load_image: filename + '.jpeg' is a TypeError for NaN (a float);
\* Image.open raises IOError for a file that does not decode
load_image(filename) ==
    IF filename = NaN THEN [err |-> "TypeError", im |-> Unreadable]
    ELSE IF Disk(filename).ok THEN [err |-> "none", im |-> Disk(filename)]
    ELSE [err |-> "IOError", im |-> Unreadable]

\* (variant) a resize that brings the LONGER side to 256
ResizedShape_Swapped(h, w) ==
    IF h < w THEN <<(h * ResizeTo) \div w, ResizeTo>>
    ELSE <<ResizeTo, (w * ResizeTo) \div h>>

\* prep_image, the resize: the shape skimage.transform.resize is asked for
ResizedShape(h, w) ==
    IF h < w THEN <<ResizeTo, (w * ResizeTo) \div h>>
    ELSE <<(h * ResizeTo) \div w, ResizeTo>>

\* prep_image, the crop: the slice taken along an axis of length n
CropRange(n) == SliceBounds(n \div 2 - CropHalf, n \div 2 + CropHalf, n)

\* KaggleDR.prep_image
prep_image(im) ==
    LET rs == ResizedShape(im.h, im.w)
        rows == CropRange(rs[1])
        cols == CropRange(rs[2])
        cropped == <<rows[2] - rows[1], cols[2] - cols[1], Len(im.channels)>>
        transposed == <<cropped[3], cropped[1], cropped[2]>>
    IN  [shape |-> transposed, channels |-> Reverse(im.channels),
         dtype |-> "floatX", id |-> im.id]

\* what a preprocessing run records: the shape asked of the resize, the rows
\* and columns the crop keeps, and the tensor returned
NotPrepared ==
    [resized |-> <<0, 0>>, rows |-> <<0, 0>>, cols |-> <<0, 0>>,
     tensor |-> [shape |-> <<0, 0, 0>>, channels |-> <<>>, dtype |-> "none", id |-> "none"]]

Prepared(im) ==
    [resized |-> ResizedShape(im.h, im.w),
     rows |-> CropRange(ResizedShape(im.h, im.w)[1]),
     cols |-> CropRange(ResizedShape(im.h, im.w)[2]),
     tensor |-> prep_image(im)]

\* the files load_batch opens before it returns or raises: it stops at the
\* first filename that fails
FirstFailure(fns) ==
    LET bad == {i \in 1..Len(fns) : load_image(fns[i]).err # "none"}
    IN  IF bad = {} THEN 0 ELSE CHOOSE i \in bad : \A j \in bad : i <= j

FilesOpened(fns) ==
    LET f == FirstFailure(fns)
    IN  IF f = 0 THEN fns
        ELSE IF fns[f] = NaN THEN SubSeq(fns, 1, f - 1) ELSE SubSeq(fns, 1, f)

\* (variant) a load_batch that skips what it cannot load and carries on
load_batch_SkipBad(idx, reindexes) ==
    LET Keep(k) == k \in 0..(Len(image_filenames) - 1) /\ Disk(image_filenames[k + 1]).ok
        good == SelectSeq(idx, Keep)
        seen == SelectSeq(idx, LAMBDA k : k \in 0..(Len(image_filenames) - 1))
    IN  Return("load_batch",
               [i \in 1..Len(good) |-> prep_image(Disk(image_filenames[good[i] + 1]))],
               [i \in 1..Len(good) |-> y[good[i] + 1]],
               [i \in 1..Len(seen) |-> image_filenames[seen[i] + 1]], 0)

\* KaggleDR.load_batch
load_batch(idx, reindexes) ==
    LET sel == SeriesGetItem(image_filenames, idx, reindexes)
        fns == sel.vals
        f == FirstFailure(fns)
        X == [i \in 1..Len(fns) |-> prep_image(load_image(fns[i]).im)]
        lab == NumpyTake(y, idx)
    IN  IF sel.err # "none" THEN Raise("load_batch", sel.err, <<>>)
        ELSE IF f # 0 THEN Raise("load_batch", load_image(fns[f]).err, FilesOpened(fns))
        ELSE IF lab.err # "none" THEN Raise("load_batch", lab.err, FilesOpened(fns))
        ELSE IF ~(Len(X) = Len(lab.vals) /\ Len(lab.vals) = Len(idx))
        THEN Raise("load_batch", "AssertionError", FilesOpened(fns))
        ELSE Return("load_batch", X, lab.vals, FilesOpened(fns), 0)

-----------------------------------------------------------------------------
(* Dataset.iterate_minibatches *)

\* the parameters a call of iterate_minibatches can bind
Parameters == {"self", "indices", "batchsize", "shuffle"}

\* the names bound at module level in datasets.py
ModuleNames == {"ABCMeta", "abstractmethod", "abstractproperty", "os", "np", "pd",
                "Image", "skimage", "floatX", "Dataset", "KaggleDR"}

NoGenerator == [st |-> "none", locals |-> [batchsize |-> 0, shuffle |-> FALSE]]

\* the generator object a call returns: nothing of the body has run yet
NewGenerator(bs, sh) == [st |-> "created", locals |-> [batchsize |-> bs, shuffle |-> sh]]

\* reading a name in the generator's frame: a local, else a module global
Unbound(g, name) == name \notin DOMAIN g.locals /\ name \notin ModuleNames

Load(g, name) == g.locals[name]

\* "if shuffle: np.random.shuffle(indices)", run when the body starts
ShuffleOutcomes(g, idx) ==
    IF g.st = "created" /\ g.locals.shuffle THEN ShuffleOrders(idx) ELSE {idx}

\* the generator once control has left it for good
Finished(g) == [g EXCEPT !.st = "finished"]

\* the body of iterate_minibatches from where the generator stands (its start,
\* or the yield it is suspended at) to its next yield, raise or return.
\* idx is the caller's sequence as the shuffle left it.
Resume(g, idx, reindexes) ==
    IF Unbound(g, "batch_size")
    THEN [gen |-> Finished(g), ret |-> Raise("next", "NameError", <<>>),
          loaded |-> <<>>, yielded |-> <<>>]
    ELSE
    LET batch_size == Load(g, "batch_size")
        start_idx == IF g.st = "created" THEN 0 ELSE Load(g, "start_idx") + batch_size
        excerpt == Slice(idx, start_idx, start_idx + batch_size)
        b == load_batch(excerpt, reindexes)
    IN  IF start_idx >= Len(idx) - batch_size + 1
        THEN [gen |-> Finished(g), ret |-> Raise("next", "StopIteration", <<>>),
              loaded |-> <<>>, yielded |-> <<>>]
        ELSE IF b.kind = "raise"
        THEN [gen |-> Finished(g), ret |-> [b EXCEPT !.op = "next"],
              loaded |-> <<excerpt>>, yielded |-> <<>>]
        ELSE [gen |-> [st |-> "suspended",
                       locals |-> [n \in DOMAIN g.locals \cup {"start_idx", "excerpt"} |->
                                     CASE n = "start_idx" -> start_idx
                                       [] n = "excerpt" -> excerpt
                                       [] OTHER -> g.locals[n]]],
              ret |-> [b EXCEPT !.op = "next"],
              loaded |-> <<excerpt>>, yielded |-> <<[X |-> b.X, y |-> b.y]>>]

\* (variant) a finished generator that next() arms again
ResumeFinished_Restart(g) ==
    [gen |-> [g EXCEPT !.st = "created"], ret |-> Raise("next", "StopIteration", <<>>),
     loaded |-> <<>>, yielded |-> <<>>]

\* next() on a generator that has finished
ResumeFinished(g) ==
    [gen |-> g, ret |-> Raise("next", "StopIteration", <<>>),
     loaded |-> <<>>, yielded |-> <<>>]

-----------------------------------------------------------------------------
(* The operations *)

IndexValues(n) == -1..n

Init ==
    /\ csv \in LabelFiles
    /\ image_filenames = KaggleDR_init(csv).image_filenames
    /\ y = KaggleDR_init(csv).y
    /\ n_samples = KaggleDR_init(csv).n_samples
    /\ indices \in SeqsUpTo(IndexValues(Len(csv)), MaxLen)
    /\ gen = NoGenerator
    /\ it_orig = <<>>
    /\ it_yielded = <<>>
    /\ it_loads = <<>>
    /\ it_shuffles = 0
    /\ it_nexts = 0
    /\ ret = NoReturn
    /\ prep_in = Unreadable
    /\ prep_out = NotPrepared

\* the n_samples property
GetNSamples ==
    /\ ret' = Return("n_samples", <<>>, <<>>, <<>>, n_samples)
    /\ UNCHANGED <<table, indices, iter, prep>>

\* a direct call kdr.load_batch(indices)
LoadBatch ==
    /\ \E reindexes \in BOOLEAN : ret' = load_batch(indices, reindexes)
    /\ UNCHANGED <<table, indices, iter, prep>>

\* a call kdr.iterate_minibatches(indices, <keyword>=bs, shuffle=sh); a
\* positional second argument binds the parameter batchsize
IterCall ==
    \E keyword \in {"batchsize", "batch_size"}, bs \in 1..MaxBatch, sh \in BOOLEAN :
        IF keyword \in Parameters
        THEN /\ gen' = NewGenerator(bs, sh)
             /\ it_orig' = indices
             /\ it_yielded' = <<>>
             /\ it_loads' = <<>>
             /\ it_shuffles' = 0
             /\ it_nexts' = 0
             /\ ret' = Return("iterate_minibatches", <<>>, <<>>, <<>>, 0)
             /\ UNCHANGED <<table, indices, prep>>
        ELSE /\ ret' = Raise("iterate_minibatches", "TypeError", <<>>)
             /\ UNCHANGED <<table, indices, iter, prep>>

\* next() on the generator
IterNext ==
    /\ gen.st \in {"created", "suspended"}
    /\ it_nexts < MaxNext
    /\ \E idx \in ShuffleOutcomes(gen, indices), reindexes \in BOOLEAN :
          LET r == Resume(gen, idx, reindexes)
          IN  /\ indices' = idx
              /\ it_shuffles' = it_shuffles
                                  + (IF gen.st = "created" /\ gen.locals.shuffle THEN 1 ELSE 0)
              /\ gen' = r.gen
              /\ ret' = r.ret
              /\ it_loads' = it_loads \o r.loaded
              /\ it_yielded' = it_yielded \o r.yielded
    /\ it_nexts' = it_nexts + 1
    /\ UNCHANGED <<table, it_orig, prep>>

\* next() on a generator that has finished
IterNextFinished ==
    /\ gen.st = "finished"
    /\ it_nexts < MaxNext
    /\ LET r == ResumeFinished(gen)
       IN  /\ gen' = r.gen
           /\ ret' = r.ret
           /\ it_loads' = it_loads \o r.loaded
           /\ it_yielded' = it_yielded \o r.yielded
    /\ it_nexts' = it_nexts + 1
    /\ UNCHANGED <<table, indices, it_orig, it_shuffles, prep>>

Next == GetNSamples \/ LoadBatch \/ IterCall \/ IterNext \/ IterNextFinished

Spec == Init /\ [][Next]_vars

-----------------------------------------------------------------------------
(* Preprocessing runs: prep_image applied to raw images of every size *)

InitPrep ==
    /\ csv = <<>>
    /\ image_filenames = KaggleDR_init(csv).image_filenames
    /\ y = KaggleDR_init(csv).y
    /\ n_samples = KaggleDR_init(csv).n_samples
    /\ indices = <<>>
    /\ gen = NoGenerator
    /\ it_orig = <<>>
    /\ it_yielded = <<>>
    /\ it_loads = <<>>
    /\ it_shuffles = 0
    /\ it_nexts = 0
    /\ ret = NoReturn
    /\ \E h \in 1..MaxDim, w \in 1..MaxDim : prep_in = RawImage(h, w, "raw")
    /\ prep_out = NotPrepared

\* a call KaggleDR.prep_image(im)
PrepCall ==
    /\ prep_out = NotPrepared
    /\ prep_out' = Prepared(prep_in)
    /\ UNCHANGED <<table, indices, iter, ret, prep_in>>

NextPrep == PrepCall

SpecPrep == InitPrep /\ [][NextPrep]_vars

-----------------------------------------------------------------------------
(* What the label file and the image files say, read without the program *)

InRange(idx) == \A i \in 1..Len(idx) : idx[i] \in 0..(Len(csv) - 1)

Loadable(idx) == InRange(idx) /\ \A i \in 1..Len(idx) : Disk(csv[idx[i] + 1].image).ok

\* the batch the rows idx stand for
BatchOf(idx) ==
    [X |-> [i \in 1..Len(idx) |-> prep_image(Disk(csv[idx[i] + 1].image))],
     y |-> [i \in 1..Len(idx) |-> csv[idx[i] + 1].level]]

\* the k-th (from 1) window of batchsize elements of idx
Window(idx, bs, k) == SubSeq(idx, (k - 1) * bs + 1, k * bs)

NWindows(idx, bs) == Len(idx) \div bs

BatchesOf(idx, bs) == [k \in 1..NWindows(idx, bs) |-> BatchOf(Window(idx, bs, k))]

SameMultiset(s, t) ==
    /\ Len(s) = Len(t)
    /\ \A i \in 1..Len(s) : Count(s, s[i]) = Count(t, s[i])

Exhausted == gen.st = "finished"

-----------------------------------------------------------------------------
(* The claims *)

\* C1: run to exhaustion, iterate_minibatches(indices, batch_size) has yielded
\* len(indices) // batch_size batches of batch_size samples each; when
\* len(indices) < batch_size it yields none and never calls load_batch.
C1_DropRemainder ==
    Exhausted /\ Loadable(it_orig) =>
        /\ Len(it_yielded) = NWindows(it_orig, gen.locals.batchsize)
        /\ \A k \in 1..Len(it_yielded) : Len(it_yielded[k].y) = gen.locals.batchsize
        /\ Len(it_orig) < gen.locals.batchsize => it_yielded = <<>> /\ it_loads = <<>>

\* C2: with shuffle=false the k-th batch yielded is load_batch of the k-th
\* consecutive window of batch_size input indices, in input order, and the
\* last len(indices) mod batch_size indices are in no batch.
C2_ConsecutiveWindows ==
    Exhausted /\ ~gen.locals.shuffle /\ Loadable(it_orig) =>
        /\ it_yielded = BatchesOf(it_orig, gen.locals.batchsize)
        /\ it_loads = [k \in 1..NWindows(it_orig, gen.locals.batchsize) |->
                         Window(it_orig, gen.locals.batchsize, k)]

\* C3: load_batch(indices) on in-range indices of decodable files returns
\* (X, y) with len(X) = len(y) = len(indices), y[i] the stored label of row
\* indices[i] and X[i] the preprocessed image of that row's file.
C3_LoadBatchAligned ==
    ret.op = "load_batch" =>
        /\ Loadable(indices) => ret.kind = "ok"
        /\ ret.kind = "ok" =>
              /\ InRange(indices)
              /\ Len(ret.X) = Len(indices)
              /\ Len(ret.y) = Len(indices)
              /\ ret.X = BatchOf(indices).X
              /\ ret.y = BatchOf(indices).y

C3_Witness ==
    /\ ret.op = "load_batch"
    /\ ret.kind = "ok"
    /\ Len(indices) = 2
    /\ indices[1] > indices[2]
    /\ ret.y[1] # ret.y[2]

\* C4: with shuffle=true the caller's sequence is permuted in place (same
\* multiset of indices) and the batches yielded are the consecutive windows of
\* the permuted sequence; with shuffle=false the caller's sequence is unchanged.
C4_ShuffleInPlace ==
    /\ gen.st # "none" /\ ~gen.locals.shuffle => indices = it_orig
    /\ gen.st # "none" /\ gen.locals.shuffle => SameMultiset(indices, it_orig)
    /\ Exhausted /\ gen.locals.shuffle /\ Loadable(it_orig) =>
          it_yielded = BatchesOf(indices, gen.locals.batchsize)

\* what a call that hit an undecodable file hands back
C5_DecodeFailureState ==
    /\ ret.op \in {"load_batch", "next"} =>
          \A i \in 1..Len(ret.reads) :
              ~Disk(ret.reads[i]).ok =>
                  /\ i = Len(ret.reads)
                  /\ ret.kind = "raise"
                  /\ ret.err = "IOError"
                  /\ ret.X = <<>>
                  /\ ret.y = <<>>
    /\ ret.op = "load_batch" /\ InRange(indices) /\ ~Loadable(indices) =>
          ret.kind = "raise" /\ ret.err = "IOError"
    /\ ret.op = "next" /\ ret.kind = "raise" => Exhausted

\* a further next() on a generator that has raised
C5_DecodeFailureStep ==
    Exhausted /\ it_nexts' = it_nexts + 1 =>
        it_yielded' = it_yielded /\ ret'.kind = "raise"

\* C5: when an image of the window does not decode, load_batch returns no
\* batch (none partial, the bad sample is not skipped: nothing is read after
\* it), the error reaches the caller, and a generator that has raised yields
\* no further batch.
C5_DecodeFailure == []C5_DecodeFailureState /\ [][C5_DecodeFailureStep]_vars

C5_Witness ==
    /\ ret.op = "load_batch"
    /\ Len(indices) = 2
    /\ InRange(indices)
    /\ Disk(csv[indices[1] + 1].image).ok
    /\ ret.reads # <<>>
    /\ ~Disk(ret.reads[Len(ret.reads)]).ok
    /\ ret.kind = "raise"

OutOfRange == \E i \in 1..Len(indices) : indices[i] \notin 0..(n_samples - 1)

\* C6 (as claimed): load_batch with an index outside [0, n_samples) fails with
\* IndexError and returns no batch.
C6_IndexError ==
    ret.op = "load_batch" /\ OutOfRange =>
        ret.kind = "raise" /\ ret.err = "IndexError"

\* C6 (amended): load_batch with an index outside [0, n_samples) returns no
\* batch and no other row's data: it fails in the filename lookup with
\* KeyError or, where pandas reindexes the missing label to NaN, with the
\* TypeError of the NaN filename or the IOError of an earlier undecodable
\* file; it never fails with IndexError.
C6_OutOfRangeFails ==
    ret.op = "load_batch" /\ OutOfRange =>
        /\ ret.kind = "raise"
        /\ ret.err \in {"KeyError", "TypeError", "IOError"}
        /\ ret.X = <<>>
        /\ ret.y = <<>>

C6_Witness ==
    /\ ret.op = "load_batch"
    /\ n_samples = 2
    /\ indices = <<0, -1>>
    /\ ret.err = "KeyError"

\* C7: after construction and any calls, n_samples equals the length of the
\* label vector and of the filename collection, and every row holds the
\* filename and label read from the label file.
C7_TableWriteOnce ==
    /\ n_samples = Len(y)
    /\ n_samples = Len(image_filenames)
    /\ n_samples = Len(csv)
    /\ \A i \in 1..Len(csv) :
          image_filenames[i] = csv[i].image /\ y[i] = csv[i].level

C7_Witness ==
    /\ Exhausted
    /\ gen.locals.shuffle
    /\ indices # it_orig
    /\ n_samples = 2
    /\ y[1] = y[2]

\* the next() requests a generator takes before it is exhausted
C8_ExhaustedInTime ==
    gen.st # "none" /\ it_nexts >= NWindows(it_orig, gen.locals.batchsize) + 1 => Exhausted

\* what can follow an exhausted generator
C8_StaysExhausted ==
    Exhausted =>
        \/ /\ gen'.st = "finished"
           /\ it_yielded' = it_yielded
           /\ it_nexts' # it_nexts => ret'.kind = "raise" /\ ret'.err = "StopIteration"
        \/ gen'.st = "created" /\ it_nexts' = 0 /\ it_yielded' = <<>>

\* C8: a generator is exhausted after at most len(indices) // batch_size + 1
\* next() requests; once exhausted it stays exhausted and every further next()
\* yields no batch, until a fresh iterate_minibatches call makes a new one.
C8_FiniteNotRestartable == []C8_ExhaustedInTime /\ [][C8_StaysExhausted]_vars

C8_Witness ==
    /\ Exhausted
    /\ it_nexts = 2
    /\ ret.op = "next"
    /\ ret.err = "StopIteration"
    /\ Len(it_orig) = 2

\* C9: prep_image of a 3-channel image of any height and width >= 1 resizes
\* the shorter side to 256 and the other to at least 256, the crop
\* [dim//2-112, dim//2+112) lies inside the resized image on both axes, and
\* the result has shape (3, 224, 224).
C9_PrepShape ==
    prep_out # NotPrepared =>
        LET rs == prep_out.resized
        IN  /\ (IF prep_in.h < prep_in.w THEN rs[1] ELSE rs[2]) = ResizeTo
            /\ rs[1] >= ResizeTo
            /\ rs[2] >= ResizeTo
            /\ prep_out.rows = <<rs[1] \div 2 - CropHalf, rs[1] \div 2 + CropHalf>>
            /\ prep_out.cols = <<rs[2] \div 2 - CropHalf, rs[2] \div 2 + CropHalf>>
            /\ 0 <= prep_out.rows[1] /\ prep_out.rows[2] <= rs[1]
            /\ 0 <= prep_out.cols[1] /\ prep_out.cols[2] <= rs[2]
            /\ prep_out.tensor.shape = <<3, 2 * CropHalf, 2 * CropHalf>>

C9_Witness ==
    /\ prep_out # NotPrepared
    /\ prep_in.h = 100
    /\ prep_in.w = 299
    /\ prep_out.resized = <<256, 765>>
    /\ prep_out.tensor.shape = <<3, 224, 224>>

\* C10: the shuffle (if requested) happens once, before any window is loaded;
\* each next() that has a window left triggers exactly one load_batch call,
\* and the window after is not loaded before the batch has been handed over.
C10_LazyOrdered ==
    gen.st # "none" =>
        /\ it_shuffles = (IF gen.locals.shuffle /\ it_nexts >= 1 THEN 1 ELSE 0)
        /\ gen.locals.shuffle /\ it_shuffles = 0 => it_loads = <<>>
        /\ Len(it_loads) <= Len(it_yielded) + 1
        /\ Loadable(it_orig) =>
              Len(it_loads) = Min(it_nexts, NWindows(it_orig, gen.locals.batchsize))

=============================================================================
